---- MODULE Spec2Model ----
(***************************************************************************)
(* Model of the "Windows v4" page codec of chatlog:                        *)
(*   internal/wechat/decrypt/common/common.go   (page primitives, opener)  *)
(*   internal/wechat/decrypt/windows/V4_en.go   (V4Encryptor)              *)
(* The V4 decryptor is not among the sources; Decrypt is modelled from     *)
(* section 4.4 of the specification on top of the page primitives.         *)
(*                                                                         *)
(* Geometry.  The code works on 16-byte AES blocks and 4096-byte pages.    *)
(* The model keeps every size relation of the code (salt = IV = header =   *)
(* one block, key = two blocks, SHA-512 tag = four blocks, reserve rounded *)
(* up to whole blocks) and scales the block to BlockBytes bytes and the    *)
(* page to PageBlocks blocks.                                              *)
(*                                                                         *)
(* Cryptography.  AES, HMAC and PBKDF2 are ideal: a cipher block, a tag    *)
(* and a derived key are terms that record what they were computed from,   *)
(* so two of them are equal exactly when their inputs are.  A page is a    *)
(* sequence of cells; a cell is a plain byte, byte j of a cipher block or  *)
(* byte j of an HMAC.                                                      *)
(***************************************************************************)
EXTENDS Integers, Sequences, FiniteSets, TLC

\* ---------------------------------------------------------------- bounds
BlockBytes == 2      \* bytes per AES block in the model (16 in the code)
PageBlocks == 7      \* blocks per page in the model (256 in the code)
MaxPages == 3        \* largest plaintext image, in pages
MaxPageNum == 2      \* largest page index handed to the page primitives

\* ------------------------------------------------------------- constants
AESBlockSize == BlockBytes
SaltSize == AESBlockSize
IVSize == AESBlockSize
KeySize == 2 * AESBlockSize
HmacSHA512Size == 4 * AESBlockSize
SHA1Size == AESBlockSize + 1
PageSize == PageBlocks * AESBlockSize
V4IterCount == 256000
MacIter == 2
MacXor == 58

\* ------------------------------------------------------------ cells, bytes
Byte(n) == [b |-> n]
Zeros(n) == [i \in 1..n |-> Byte(0)]
Min(a, b) == IF a < b THEN a ELSE b

\* copy(dst[at:], src) of Go, at 0-based: overwrites, never grows dst
CopyAt(dst, at, src) ==
  [i \in 1..Len(dst) |->
     IF i > at /\ i - at <= Len(src) THEN src[i - at] ELSE dst[i]]

\* mutant: the scan stops after the first byte
AllZero_FirstByte(s) == Len(s) = 0 \/ s[1] = Byte(0)

AllZero(s) == \A i \in 1..Len(s) : s[i] = Byte(0)

RECURSIVE BitXor(_, _)
BitXor(x, y) ==
  IF x = 0 /\ y = 0 THEN 0
  ELSE (((x % 2) + (y % 2)) % 2) + 2 * BitXor(x \div 2, y \div 2)

XorBytes(a, bb) == [i \in 1..Len(a) |-> Byte(BitXor(a[i].b, bb))]

\* mutant: the page number is lost, every page is tagged as number 1
LE32_Const(n) ==
  << Byte(1), Byte(0), Byte(0), Byte(0) >>

\* binary.LittleEndian.PutUint32(buf, uint32(n)): the four low bytes of n
LE32(n) ==
  << Byte(n % 256), Byte((n \div 256) % 256),
     Byte((n \div 65536) % 256), Byte((n \div 16777216) % 256) >>

\* the canonical header "SQLite format 3\x00", cut to one block
HeaderText == << 83, 81, 76, 105, 116, 101, 32, 102, 111, 114, 109, 97, 116, 32, 51 >>
SQLiteHeader ==
  [i \in 1..AESBlockSize |->
     IF i < AESBlockSize THEN Byte(HeaderText[i]) ELSE Byte(0)]

\* ------------------------------------------------------------ ideal crypto
RawKey(bytes) == [kb |-> bytes]
KeyLen(k) == IF "kb" \in DOMAIN k THEN Len(k.kb) ELSE k.dk

\* pbkdf2.Key(password, salt, iter, keyLen, h)
PBKDF2(password, salt, iter, keyLen, h) ==
  [pw |-> password, salt |-> salt, iter |-> iter, dk |-> keyLen, h |-> h]

HashSize(h) == IF h = "sha512" THEN HmacSHA512Size ELSE SHA1Size

\* hmac.New(h, key); Write(data); Sum(nil)
HMAC(h, key, data) ==
  [j \in 1..HashSize(h) |-> [m |-> [hh |-> h, hk |-> key, hd |-> data], mj |-> j]]

\* aes.NewCipher accepts keys of 16, 24 or 32 bytes
AESKeySizes == {AESBlockSize, (3 * AESBlockSize) \div 2, 2 * AESBlockSize}

\* the block a run of AESBlockSize cells stands for
Blk(cells) ==
  IF /\ \A j \in 1..Len(cells) : DOMAIN cells[j] = {"c", "cj"}
     /\ \A j \in 1..Len(cells) : cells[j].cj = j /\ cells[j].c = cells[1].c
  THEN cells[1].c
  ELSE [raw |-> cells]

CellsOf(t) ==
  IF DOMAIN t = {"raw"} THEN t.raw
  ELSE [j \in 1..AESBlockSize |-> [c |-> t, cj |-> j]]

BlkXor(x, y) ==
  IF DOMAIN x = {"xa", "xb"} /\ x.xb = y THEN x.xa ELSE [xa |-> x, xb |-> y]

AESEnc(k, x) ==
  IF DOMAIN x = {"dk", "dx"} /\ x.dk = k THEN x.dx ELSE [ek |-> k, ex |-> x]

AESDec(k, x) ==
  IF DOMAIN x = {"ek", "ex"} /\ x.ek = k THEN x.ex ELSE [dk |-> k, dx |-> x]

BlockAt(data, i) == Blk(SubSeq(data, (i - 1) * AESBlockSize + 1, i * AESBlockSize))

\* cipher.NewCBCEncrypter(block, iv).CryptBlocks: C_i = E(P_i xor C_{i-1})
RECURSIVE CBCEncBlock(_, _, _, _)
CBCEncBlock(k, iv, data, i) ==
  LET prev == IF i = 1 THEN Blk(iv) ELSE CBCEncBlock(k, iv, data, i - 1)
  IN  AESEnc(k, BlkXor(BlockAt(data, i), prev))

CBCEncrypt(k, iv, data) ==
  [p \in 1..Len(data) |->
     CellsOf(CBCEncBlock(k, iv, data, ((p - 1) \div AESBlockSize) + 1))
       [((p - 1) % AESBlockSize) + 1]]

\* cipher.NewCBCDecrypter(block, iv).CryptBlocks: P_i = D(C_i) xor C_{i-1}
CBCDecBlock(k, iv, data, i) ==
  LET prev == IF i = 1 THEN Blk(iv) ELSE BlockAt(data, i - 1)
  IN  BlkXor(AESDec(k, BlockAt(data, i)), prev)

CBCDecrypt(k, iv, data) ==
  [p \in 1..Len(data) |->
     CellsOf(CBCDecBlock(k, iv, data, ((p - 1) \div AESBlockSize) + 1))
       [((p - 1) % AESBlockSize) + 1]]

\* ---------------------------------------------------------- V4 parameters
\* NewV4Encryptor: reserve is IV + HMAC rounded up to whole blocks
ReserveFor(hmacSize) ==
  LET r == IVSize + hmacSize
  IN  IF r % AESBlockSize # 0
      THEN ((r \div AESBlockSize) + 1) * AESBlockSize
      ELSE r

NewV4Encryptor ==
  [iterCount |-> V4IterCount, hmacSize |-> HmacSHA512Size, hashFunc |-> "sha512",
   reserve |-> ReserveFor(HmacSHA512Size), pageSize |-> PageSize]

\* V4Encryptor.deriveKeys
deriveKeys(e, key, salt) ==
  LET encKey == PBKDF2(key, salt, e.iterCount, KeySize, e.hashFunc)
      macSalt == XorBytes(salt, MacXor)
      macKey == PBKDF2(encKey, macSalt, MacIter, KeySize, e.hashFunc)
  IN  [encKey |-> encKey, macKey |-> macKey]

\* -------------------------------------------------------- page primitives
NoPage == << >>

\* mutant: the cipher is started with a zero IV, not the IV of the tail
EncryptPage_ZeroIV(plainPage, encKey, macKey, pageNum, hashFunc, hmacSize, reserve, pageSize) ==
  LET offset == IF pageNum = 0 THEN SaltSize ELSE 0
      hasSalt == pageNum = 0 /\ Len(plainPage) = pageSize
      pagePayload == IF hasSalt
                     THEN SubSeq(plainPage, SaltSize + 1, Len(plainPage))
                     ELSE plainPage
      dataLen == Len(pagePayload) - reserve
      plainData == SubSeq(pagePayload, 1, dataLen)
      tail == SubSeq(pagePayload, dataLen + 1, Len(pagePayload))
      encryptedData == CBCEncrypt(encKey, Zeros(IVSize), plainData)
      buf0 == IF hasSalt
              THEN CopyAt(Zeros(pageSize), 0, SubSeq(plainPage, 1, SaltSize))
              ELSE Zeros(pageSize)
      buf1 == CopyAt(buf0, offset, encryptedData)
      buf2 == CopyAt(buf1, pageSize - reserve, tail)
      calculatedMAC == HMAC(hashFunc, macKey,
                         SubSeq(buf2, offset + 1, pageSize - reserve + IVSize)
                           \o LE32(pageNum + 1))
  IN  [err |-> "nil",
       page |-> CopyAt(buf2, pageSize - reserve + IVSize,
                       SubSeq(calculatedMAC, 1, hmacSize))]

EncryptPage(plainPage, encKey, macKey, pageNum, hashFunc, hmacSize, reserve, pageSize) ==
  LET offset == IF pageNum = 0 THEN SaltSize ELSE 0
      shapeOK == IF pageNum = 0
                 THEN Len(plainPage) \in {pageSize, pageSize - SaltSize}
                 ELSE Len(plainPage) = pageSize
      hasSalt == pageNum = 0 /\ Len(plainPage) = pageSize
      pagePayload == IF hasSalt
                     THEN SubSeq(plainPage, SaltSize + 1, Len(plainPage))
                     ELSE plainPage
      dataLen == Len(pagePayload) - reserve
  IN  IF hashFunc = "nil" THEN [err |-> "HashFuncNil", page |-> NoPage]
      ELSE IF ~shapeOK THEN [err |-> "InvalidPageShape", page |-> NoPage]
      ELSE IF Len(pagePayload) < reserve THEN [err |-> "InvalidPageShape", page |-> NoPage]
      ELSE IF dataLen % AESBlockSize # 0 THEN [err |-> "InvalidPageShape", page |-> NoPage]
      ELSE IF reserve < IVSize + hmacSize THEN [err |-> "InvalidPageShape", page |-> NoPage]
      ELSE IF KeyLen(encKey) \notin AESKeySizes THEN [err |-> "CreateCipherFailed", page |-> NoPage]
      ELSE
        LET plainData == SubSeq(pagePayload, 1, dataLen)
            tail == SubSeq(pagePayload, dataLen + 1, Len(pagePayload))
            iv == SubSeq(tail, 1, IVSize)
            encryptedData == CBCEncrypt(encKey, iv, plainData)
            buf0 == IF hasSalt
                    THEN CopyAt(Zeros(pageSize), 0, SubSeq(plainPage, 1, SaltSize))
                    ELSE Zeros(pageSize)
            buf1 == CopyAt(buf0, offset, encryptedData)
            buf2 == CopyAt(buf1, pageSize - reserve, tail)
            calculatedMAC == HMAC(hashFunc, macKey,
                               SubSeq(buf2, offset + 1, pageSize - reserve + IVSize)
                                 \o LE32(pageNum + 1))
        IN  IF Len(calculatedMAC) < hmacSize
            THEN [err |-> "HMACTooShort", page |-> NoPage]
            ELSE [err |-> "nil",
                  page |-> CopyAt(buf2, pageSize - reserve + IVSize,
                                  SubSeq(calculatedMAC, 1, hmacSize))]

\* mutant: the reserve is cleared instead of being returned unchanged
DecryptPage_ClearReserve(pageBuf, encKey, macKey, pageNum, hashFunc, hmacSize, reserve, pageSize) ==
  LET offset == IF pageNum = 0 THEN SaltSize ELSE 0
      hashMac == HMAC(hashFunc, macKey,
                   SubSeq(pageBuf, offset + 1, pageSize - reserve + IVSize)
                     \o LE32(pageNum + 1))
      hashMacStartOffset == pageSize - reserve + IVSize
  IN  IF hashMac # SubSeq(pageBuf, hashMacStartOffset + 1, hashMacStartOffset + hmacSize)
      THEN [err |-> "HashVerificationFailed", page |-> NoPage]
      ELSE
        LET iv == SubSeq(pageBuf, pageSize - reserve + 1, pageSize - reserve + IVSize)
            encrypted == CBCDecrypt(encKey, iv, SubSeq(pageBuf, offset + 1, pageSize - reserve))
        IN  [err |-> "nil", page |-> encrypted \o Zeros(reserve)]

\* mutant: the tag is recomputed with the page index, not index + 1
DecryptPage_IndexTag(pageBuf, encKey, macKey, pageNum, hashFunc, hmacSize, reserve, pageSize) ==
  LET offset == IF pageNum = 0 THEN SaltSize ELSE 0
      hashMac == HMAC(hashFunc, macKey,
                   SubSeq(pageBuf, offset + 1, pageSize - reserve + IVSize)
                     \o LE32(pageNum))
      hashMacStartOffset == pageSize - reserve + IVSize
  IN  IF hashMac # SubSeq(pageBuf, hashMacStartOffset + 1, hashMacStartOffset + hmacSize)
      THEN [err |-> "HashVerificationFailed", page |-> NoPage]
      ELSE
        LET iv == SubSeq(pageBuf, pageSize - reserve + 1, pageSize - reserve + IVSize)
            encrypted == CBCDecrypt(encKey, iv, SubSeq(pageBuf, offset + 1, pageSize - reserve))
        IN  [err |-> "nil",
             page |-> encrypted \o SubSeq(pageBuf, pageSize - reserve + 1, pageSize)]

DecryptPage(pageBuf, encKey, macKey, pageNum, hashFunc, hmacSize, reserve, pageSize) ==
  LET offset == IF pageNum = 0 THEN SaltSize ELSE 0
      hashMac == HMAC(hashFunc, macKey,
                   SubSeq(pageBuf, offset + 1, pageSize - reserve + IVSize)
                     \o LE32(pageNum + 1))
      hashMacStartOffset == pageSize - reserve + IVSize
      hashMacEndOffset == hashMacStartOffset + hmacSize
  IN  IF hashMac # SubSeq(pageBuf, hashMacStartOffset + 1, hashMacEndOffset)
      THEN [err |-> "HashVerificationFailed", page |-> NoPage]
      ELSE IF KeyLen(encKey) \notin AESKeySizes
      THEN [err |-> "CreateCipherFailed", page |-> NoPage]
      ELSE
        LET iv == SubSeq(pageBuf, pageSize - reserve + 1, pageSize - reserve + IVSize)
            encrypted == CBCDecrypt(encKey, iv, SubSeq(pageBuf, offset + 1, pageSize - reserve))
        IN  [err |-> "nil",
             page |-> encrypted \o SubSeq(pageBuf, pageSize - reserve + 1, pageSize)]

\* mutant: the HMAC input stops at the end of the ciphertext, without the IV
ValidateKey_NoIV(page1, key, salt, hashFunc, hmacSize, reserve, pageSize, e) ==
  IF KeyLen(key) # KeySize THEN [ok |-> FALSE, derived |-> FALSE]
  ELSE
    LET macKey == deriveKeys(e, key, salt).macKey
        dataEnd == pageSize - reserve + IVSize
        calculatedMAC == HMAC(hashFunc, macKey,
                           SubSeq(page1, SaltSize + 1, pageSize - reserve) \o LE32(1))
        storedMAC == SubSeq(page1, dataEnd + 1, dataEnd + hmacSize)
    IN  [ok |-> calculatedMAC = storedMAC, derived |-> TRUE]

\* deriveKeys is the callback; derived records whether it was called
ValidateKey(page1, key, salt, hashFunc, hmacSize, reserve, pageSize, e) ==
  IF KeyLen(key) # KeySize THEN [ok |-> FALSE, derived |-> FALSE]
  ELSE
    LET macKey == deriveKeys(e, key, salt).macKey
        dataEnd == pageSize - reserve + IVSize
        calculatedMAC == HMAC(hashFunc, macKey,
                           SubSeq(page1, SaltSize + 1, dataEnd) \o LE32(1))
        storedMAC == SubSeq(page1, dataEnd + 1, dataEnd + hmacSize)
    IN  [ok |-> calculatedMAC = storedMAC, derived |-> TRUE]

\* os.Open + os.File.Stat + io.ReadFull of the first page, then the header test
NoDB == [Salt |-> << >>, TotalPages |-> 0, FirstPage |-> << >>]

\* io.ReadFull(f, buf) with the file offset at pos
ReadFull(data, pos, buf) ==
  LET avail == Len(data) - pos
      n == Min(Len(buf), IF avail < 0 THEN 0 ELSE avail)
  IN  [n |-> n,
       err |-> IF n = Len(buf) THEN "nil"
               ELSE IF n = 0 THEN "EOF" ELSE "ErrUnexpectedEOF",
       buf |-> CopyAt(buf, 0, SubSeq(data, pos + 1, pos + n))]

\* mutant: the test compares the whole header, trailing NUL included
OpenDBFile_FullHeader(file, pageSize) ==
  IF ~file.exists THEN [err |-> "OpenFailed", db |-> NoDB]
  ELSE
    LET fileSize == Len(file.data)
        totalPages == (fileSize \div pageSize)
                        + (IF fileSize % pageSize > 0 THEN 1 ELSE 0)
        rd == ReadFull(file.data, 0, Zeros(pageSize))
        buffer == rd.buf
    IN  IF rd.err # "nil" THEN [err |-> "ReadFailed", db |-> NoDB]
        ELSE IF SubSeq(buffer, 1, Len(SQLiteHeader)) = SQLiteHeader
        THEN [err |-> "AlreadyDecrypted", db |-> NoDB]
        ELSE [err |-> "nil",
              db |-> [Salt |-> SubSeq(buffer, 1, SaltSize),
                      TotalPages |-> totalPages,
                      FirstPage |-> buffer]]

OpenDBFile(file, pageSize) ==
  IF ~file.exists THEN [err |-> "OpenFailed", db |-> NoDB]
  ELSE
    LET fileSize == Len(file.data)
        totalPages == (fileSize \div pageSize)
                        + (IF fileSize % pageSize > 0 THEN 1 ELSE 0)
        rd == ReadFull(file.data, 0, Zeros(pageSize))
        buffer == rd.buf
    IN  IF rd.err # "nil" THEN [err |-> "ReadFailed", db |-> NoDB]
        ELSE IF rd.n # pageSize THEN [err |-> "IncompleteRead", db |-> NoDB]
        ELSE IF SubSeq(buffer, 1, Len(SQLiteHeader) - 1)
                  = SubSeq(SQLiteHeader, 1, Len(SQLiteHeader) - 1)
        THEN [err |-> "AlreadyDecrypted", db |-> NoDB]
        ELSE [err |-> "nil",
              db |-> [Salt |-> SubSeq(buffer, 1, SaltSize),
                      TotalPages |-> totalPages,
                      FirstPage |-> buffer]]

\* ------------------------------------------------------------- hex keys
\* encoding/hex: '0'..'9', 'a'..'f', 'A'..'F'
HexDigit(n) == IF n < 10 THEN 48 + n ELSE 87 + n

HexEncode(bytes) ==
  [i \in 1..(2 * Len(bytes)) |->
     IF i % 2 = 1 THEN HexDigit(bytes[(i + 1) \div 2] \div 16)
     ELSE HexDigit(bytes[i \div 2] % 16)]

fromHexChar(c) ==
  IF c >= 48 /\ c <= 57 THEN c - 48
  ELSE IF c >= 97 /\ c <= 102 THEN c - 87
  ELSE IF c >= 65 /\ c <= 70 THEN c - 55
  ELSE 255

\* hex.DecodeString
HexDecode(s) ==
  IF \E i \in 1..Len(s) : fromHexChar(s[i]) > 15 THEN [err |-> "InvalidByte", bytes |-> << >>]
  ELSE IF Len(s) % 2 = 1 THEN [err |-> "ErrLength", bytes |-> << >>]
  ELSE [err |-> "nil",
        bytes |-> [i \in 1..(Len(s) \div 2) |->
                     16 * fromHexChar(s[2 * i - 1]) + fromHexChar(s[2 * i])]]

\* ------------------------------------------------------------- inputs
KeyA == [i \in 1..KeySize |-> 17]
KeyB == [i \in 1..KeySize |-> IF i = KeySize THEN 18 ELSE 17]
KeyShort == [i \in 1..(KeySize - 1) |-> 17]
HexBadChar == [HexEncode(KeyA) EXCEPT ![1] = 103]
HexOdd == SubSeq(HexEncode(KeyA), 1, 2 * KeySize - 1)

EncHexKeys == {HexEncode(KeyA), HexEncode(KeyShort), HexBadChar, HexOdd}
DecHexKeys == {HexEncode(KeyA), HexEncode(KeyB), HexEncode(KeyShort), HexBadChar}
CandidateKeys == {KeyA, KeyB, KeyShort}

\* crypto/rand: the bytes rand.Read will deliver are fixed when the run starts
\* (one of RandTapes); draw k of a tape is all zero or all 160 + k, so every
\* position sees a zero and a non-zero value and two non-zero draws of a run
\* differ.  A salt that spells the header's text has probability 2^-120 and is
\* on no tape.
RandTapes == {0, 1}
Draw(t, k, n) == [i \in 1..n |-> Byte(IF (t + k) % 2 = 0 THEN 0 ELSE 160 + k)]

\* salts and IVs handed to the page primitives directly
Salts == {[i \in 1..SaltSize |-> Byte(0)], [i \in 1..SaltSize |-> Byte(161)]}
IVs == {[i \in 1..IVSize |-> Byte(0)], [i \in 1..IVSize |-> Byte(17)]}

Patterns == {"zero", "data", "tail"}
HeaderKinds == {"exact", "last", "first"}

\* page contents of the plaintext images
PatternPage(pat, e) ==
  [i \in 1..e.pageSize |->
     IF pat = "zero" THEN Byte(0)
     ELSE IF pat = "data" THEN Byte(((i + 36) % 251) + 1)
     ELSE IF i > e.pageSize - e.reserve THEN Byte(7) ELSE Byte(0)]

HeaderOf(kind) ==
  IF kind = "exact" THEN SQLiteHeader
  ELSE IF kind = "last" THEN [SQLiteHeader EXCEPT ![Len(SQLiteHeader)] = Byte(1)]
  ELSE [SQLiteHeader EXCEPT ![1] = Byte(0)]

RECURSIVE Concat(_)
Concat(ss) == IF ss = << >> THEN << >> ELSE Head(ss) \o Concat(Tail(ss))

PlainImage(kind, pats, lastLen) ==
  LET e == NewV4Encryptor
      n == Len(pats)
      full == Concat([p \in 1..n |-> PatternPage(pats[p], e)])
      img == CopyAt(full, 0, HeaderOf(kind))
  IN  SubSeq(img, 1, (n - 1) * e.pageSize + lastLen)

\* bytes present of the last page: whole, one short, a header, less, none
LastLens == {PageSize, PageSize - 1, SaltSize, SaltSize - 1, 0}

PlainFiles ==
  { [exists |-> TRUE, data |-> PlainImage(kind, pats, lastLen)] :
      kind \in HeaderKinds,
      pats \in UNION {[1..n -> Patterns] : n \in 1..MaxPages},
      lastLen \in LastLens }
  \cup {[exists |-> FALSE, data |-> << >>]}

\* ------------------------------------------------------------- state
VARIABLES
  hexKey,     \* Encrypt: the hex key argument
  plainDB,    \* Encrypt: the plaintext file
  ctxDone,    \* Encrypt: ctx.Done() is closed
  doneAt,     \* history: Encrypt's position when ctx was cancelled
  pc,         \* Encrypt: "start", "check", "body", "done"
  err,        \* Encrypt: the returned error once pc = "done"
  output,     \* Encrypt: bytes written to the sink
  pos,        \* Encrypt: read offset in plainFile
  pageBuf,    \* Encrypt: the reused page buffer
  curPage,    \* Encrypt: loop counter
  keys,       \* Encrypt: encKey, macKey
  salt,       \* Encrypt: the generated salt
  tape,       \* Encrypt: the bytes crypto/rand will deliver
  rnd,        \* history: page index and value of every IV drawn
  swapped,    \* pages of the encrypted image exchanged before decrypting
  dHexKey,    \* Decrypt: the hex key argument
  dpc,        \* Decrypt: "idle", "page", "done"
  derr,       \* Decrypt: the returned error once dpc = "done"
  dout,       \* Decrypt: bytes written to the sink
  dcur,       \* Decrypt: page index, and the failing page once done
  ddb,        \* Decrypt: the DBFile record of the opener
  dkeys,      \* Decrypt: encKey, macKey
  probe,      \* result of a direct OpenDBFile / ValidateKey call
  pt          \* page-primitive harness

vars == << hexKey, plainDB, ctxDone, doneAt, pc, err, output, pos, pageBuf,
           curPage, keys, salt, tape, rnd, swapped, dHexKey, dpc, derr, dout, dcur,
           ddb, dkeys, probe, pt >>

encVars == << hexKey, plainDB, pc, err, output, pos, pageBuf, curPage, keys, salt,
             tape, rnd >>
decVars == << dHexKey, dpc, derr, dout, dcur, ddb, dkeys >>

NoKeys == [encKey |-> RawKey(<< >>), macKey |-> RawKey(<< >>)]
NoProbe == [op |-> "none"]
NoPT == [step |-> "off"]

Init ==
  /\ hexKey \in EncHexKeys
  /\ plainDB \in PlainFiles
  /\ ctxDone = FALSE
  /\ doneAt = "never"
  /\ pc = "start"
  /\ err = "running"
  /\ output = << >>
  /\ pos = 0
  /\ pageBuf = << >>
  /\ curPage = 0
  /\ keys = NoKeys
  /\ salt = << >>
  /\ tape \in RandTapes
  /\ rnd = << >>
  /\ swapped = << >>
  /\ dHexKey = << >>
  /\ dpc = "idle"
  /\ derr = "running"
  /\ dout = << >>
  /\ dcur = 0
  /\ ddb = NoDB
  /\ dkeys = NoKeys
  /\ probe = NoProbe
  /\ pt = NoPT

\* ------------------------------------------------------------- Encrypt
\* the caller cancels ctx, at any time before Encrypt has returned
Cancel ==
  /\ pc # "done"
  /\ ~ctxDone
  /\ ctxDone' = TRUE
  /\ doneAt' = pc
  /\ UNCHANGED << encVars, swapped, decVars, probe, pt >>

EncryptFail(e) ==
  /\ pc' = "done"
  /\ err' = e
  /\ UNCHANGED << output, pos, pageBuf, curPage, keys, salt, rnd >>

\* mutant: the bytes past a short read are left as the buffer held them
ZeroFill_None(buf, n) == buf

\* V4_en.go 90-94, 150-154: for i := n; i < len(buf); i++ { buf[i] = 0 }
ZeroFill(buf, n) == IF n < Len(buf) THEN CopyAt(buf, n, Zeros(Len(buf) - n)) ELSE buf

\* mutant: the header test of the opener, without the last byte
headerOK_Prefix(header) ==
  SubSeq(header, 1, Len(SQLiteHeader) - 1) = SubSeq(SQLiteHeader, 1, Len(SQLiteHeader) - 1)

\* V4_en.go 79: bytes.Equal(header, []byte(common.SQLiteHeader))
headerOK(header) == header = SQLiteHeader

\* V4_en.go 57-124: key, header, page 0
EncryptStart ==
  /\ pc = "start"
  /\ LET e == NewV4Encryptor
         dec == HexDecode(hexKey)
         key == dec.bytes
         hd == ReadFull(plainDB.data, 0, Zeros(Len(SQLiteHeader)))
         fp == ReadFull(plainDB.data, Len(SQLiteHeader), Zeros(e.pageSize - Len(SQLiteHeader)))
         firstPayload == ZeroFill(fp.buf, fp.n)
     IN  IF dec.err # "nil" THEN EncryptFail("KeyDecode")
         ELSE IF Len(key) # KeySize THEN EncryptFail("KeyLength")
         ELSE IF ~plainDB.exists THEN EncryptFail("OpenFailed")
         ELSE IF hd.err # "nil" THEN EncryptFail("ReadFailed")
         ELSE IF ~headerOK(hd.buf) THEN EncryptFail("InvalidHeader")
         ELSE
           LET s == Draw(tape, 0, SaltSize)
               iv == Draw(tape, 1, IVSize)
               dk == deriveKeys(e, RawKey(key), s)
               firstPlain0 == s \o firstPayload
               firstPlain == CopyAt(firstPlain0, Len(firstPlain0) - e.reserve,
                                    iv \o Zeros(e.reserve - IVSize))
               r == EncryptPage(firstPlain, dk.encKey, dk.macKey, 0,
                                e.hashFunc, e.hmacSize, e.reserve, e.pageSize)
           IN  /\ salt' = s
               /\ keys' = dk
               /\ rnd' = Append(rnd, [page |-> 0, iv |-> iv])
               /\ pos' = Len(SQLiteHeader) + fp.n
               /\ IF r.err # "nil"
                  THEN /\ pc' = "done"
                       /\ err' = r.err
                       /\ UNCHANGED << output, pageBuf, curPage >>
                  ELSE /\ output' = output \o r.page
                       /\ pageBuf' = Zeros(e.pageSize)
                       /\ curPage' = 1
                       /\ pc' = "check"
                       /\ err' = err
  /\ UNCHANGED << hexKey, plainDB, ctxDone, doneAt, tape, swapped, decVars, probe, pt >>

\* mutant: the loop never looks at ctx.Done()
EncryptCheck_Ignore ==
  /\ pc = "check"
  /\ pc' = "body"
  /\ UNCHANGED << hexKey, plainDB, ctxDone, doneAt, err, output, pos, pageBuf, curPage,
                  keys, salt, tape, rnd, swapped, decVars, probe, pt >>

\* V4_en.go 126-130: the select on ctx.Done() at the top of the loop
EncryptCheck ==
  /\ pc = "check"
  /\ IF ctxDone
     THEN /\ pc' = "done"
          /\ err' = "Cancelled"
     ELSE /\ pc' = "body"
          /\ err' = err
  /\ UNCHANGED << hexKey, plainDB, ctxDone, doneAt, output, pos, pageBuf, curPage,
                  keys, salt, tape, rnd, swapped, decVars, probe, pt >>

\* mutant: a page that is passed through does not advance the page counter
EncryptBody_NoAdvance ==
  /\ pc = "body"
  /\ LET e == NewV4Encryptor
         rd == ReadFull(plainDB.data, pos, pageBuf)
         n == rd.n
         readErr == rd.err
         filled == ZeroFill(rd.buf, n)
         last == readErr = "ErrUnexpectedEOF"
     IN  /\ pos' = pos + n
         /\ IF readErr = "EOF" \/ (n = 0 /\ readErr = "ErrUnexpectedEOF")
            THEN /\ pc' = "done"
                 /\ err' = "nil"
                 /\ pageBuf' = rd.buf
                 /\ UNCHANGED << output, curPage, rnd >>
            ELSE IF AllZero(filled)
            THEN /\ output' = output \o filled
                 /\ pageBuf' = filled
                 /\ rnd' = rnd
                 /\ IF last
                    THEN pc' = "done" /\ err' = "nil" /\ curPage' = curPage
                    ELSE pc' = "check" /\ err' = err /\ curPage' = curPage
            ELSE
              LET iv == Draw(tape, Len(rnd) + 1, IVSize)
                  buf == CopyAt(filled, e.pageSize - e.reserve,
                                iv \o Zeros(e.reserve - IVSize))
                  r == EncryptPage(buf, keys.encKey, keys.macKey, curPage,
                                   e.hashFunc, e.hmacSize, e.reserve, e.pageSize)
              IN  /\ pageBuf' = buf
                  /\ rnd' = Append(rnd, [page |-> curPage, iv |-> iv])
                  /\ IF r.err # "nil"
                     THEN pc' = "done" /\ err' = r.err /\ output' = output /\ curPage' = curPage
                     ELSE /\ output' = output \o r.page
                          /\ IF last
                             THEN pc' = "done" /\ err' = "nil" /\ curPage' = curPage
                             ELSE pc' = "check" /\ err' = err /\ curPage' = curPage + 1
  /\ UNCHANGED << hexKey, plainDB, ctxDone, doneAt, keys, salt, tape, swapped, decVars,
                  probe, pt >>

\* V4_en.go 132-189: read one page, pass it through or encrypt it, write it
EncryptBody ==
  /\ pc = "body"
  /\ LET e == NewV4Encryptor
         rd == ReadFull(plainDB.data, pos, pageBuf)
         n == rd.n
         readErr == rd.err
         filled == ZeroFill(rd.buf, n)
         last == readErr = "ErrUnexpectedEOF"
     IN  /\ pos' = pos + n
         /\ IF readErr = "EOF" \/ (n = 0 /\ readErr = "ErrUnexpectedEOF")
            THEN /\ pc' = "done"
                 /\ err' = "nil"
                 /\ pageBuf' = rd.buf
                 /\ UNCHANGED << output, curPage, rnd >>
            ELSE IF AllZero(filled)
            THEN /\ output' = output \o filled
                 /\ pageBuf' = filled
                 /\ rnd' = rnd
                 /\ IF last
                    THEN pc' = "done" /\ err' = "nil" /\ curPage' = curPage
                    ELSE pc' = "check" /\ err' = err /\ curPage' = curPage + 1
            ELSE
              LET iv == Draw(tape, Len(rnd) + 1, IVSize)
                  buf == CopyAt(filled, e.pageSize - e.reserve,
                                iv \o Zeros(e.reserve - IVSize))
                  r == EncryptPage(buf, keys.encKey, keys.macKey, curPage,
                                   e.hashFunc, e.hmacSize, e.reserve, e.pageSize)
              IN  /\ pageBuf' = buf
                  /\ rnd' = Append(rnd, [page |-> curPage, iv |-> iv])
                  /\ IF r.err # "nil"
                     THEN pc' = "done" /\ err' = r.err /\ output' = output /\ curPage' = curPage
                     ELSE /\ output' = output \o r.page
                          /\ IF last
                             THEN pc' = "done" /\ err' = "nil" /\ curPage' = curPage
                             ELSE pc' = "check" /\ err' = err /\ curPage' = curPage + 1
  /\ UNCHANGED << hexKey, plainDB, ctxDone, doneAt, keys, salt, tape, swapped, decVars,
                  probe, pt >>

\* ------------------------------------------------------------- Decrypt
\* The image of a run that was never cancelled is handed to one consumer:
\* Decrypt (after an exchange of two pages, with the key of the image), or a
\* direct call of OpenDBFile or ValidateKey.

\* the encrypted image as the decryptor finds it on disk
SwapPages(img, i, j, pageSize) ==
  [p \in 1..Len(img) |->
     LET pg == (p - 1) \div pageSize
         o == (p - 1) % pageSize
     IN  IF pg = i THEN img[j * pageSize + o + 1]
         ELSE IF pg = j THEN img[i * pageSize + o + 1]
         ELSE img[p]]

EncDB ==
  [exists |-> TRUE,
   data |-> IF swapped = << >> THEN output
            ELSE SwapPages(output, swapped[1], swapped[2], PageSize)]

\* two whole pages of the finished image, both past page 0, change places
Swap(i, j) ==
  /\ pc = "done" /\ err = "nil" /\ ~ctxDone
  /\ dpc = "idle" /\ probe = NoProbe /\ swapped = << >>
  /\ 1 <= i /\ i < j /\ (j + 1) * PageSize <= Len(output)
  /\ swapped' = << i, j >>
  /\ UNCHANGED << encVars, ctxDone, doneAt, decVars, probe, pt >>

DecryptFail(hk, e, written) ==
  /\ dHexKey' = hk
  /\ dpc' = "done"
  /\ derr' = e
  /\ dout' = written
  /\ UNCHANGED << dcur, ddb, dkeys >>

\* section 4.4, steps 1 to 6, with context.Background()
DecryptStart(hk) ==
  /\ pc = "done" /\ err = "nil" /\ ~ctxDone
  /\ dpc = "idle" /\ probe = NoProbe
  /\ swapped # << >> => hk = hexKey
  /\ LET e == NewV4Encryptor
         dec == HexDecode(hk)
         key == RawKey(dec.bytes)
         o == OpenDBFile(EncDB, e.pageSize)
         dk == deriveKeys(e, key, o.db.Salt)
         v == ValidateKey(o.db.FirstPage, key, o.db.Salt, e.hashFunc,
                          e.hmacSize, e.reserve, e.pageSize, e)
         r == DecryptPage(o.db.FirstPage, dk.encKey, dk.macKey, 0,
                          e.hashFunc, e.hmacSize, e.reserve, e.pageSize)
     IN  IF dec.err # "nil" THEN DecryptFail(hk, "KeyDecode", << >>)
         ELSE IF KeyLen(key) # KeySize THEN DecryptFail(hk, "KeyLength", << >>)
         ELSE IF o.err # "nil" THEN DecryptFail(hk, o.err, << >>)
         ELSE IF ~v.ok THEN DecryptFail(hk, "KeyMismatch", << >>)
         ELSE IF r.err # "nil"
         THEN /\ dHexKey' = hk /\ dpc' = "done" /\ derr' = r.err
              /\ dout' = SQLiteHeader /\ ddb' = o.db /\ dkeys' = dk
              /\ dcur' = 0
         ELSE /\ dHexKey' = hk /\ dpc' = "page" /\ derr' = derr
              /\ dout' = SQLiteHeader \o r.page
              /\ ddb' = o.db /\ dkeys' = dk /\ dcur' = 1
  /\ UNCHANGED << encVars, ctxDone, doneAt, swapped, probe, pt >>

\* section 4.4, steps 7 and 8: one further page
DecryptNext ==
  /\ dpc = "page"
  /\ LET e == NewV4Encryptor
         rd == ReadFull(EncDB.data, dcur * e.pageSize, Zeros(e.pageSize))
         r == DecryptPage(rd.buf, dkeys.encKey, dkeys.macKey, dcur,
                          e.hashFunc, e.hmacSize, e.reserve, e.pageSize)
     IN  IF rd.err = "EOF"
         THEN dpc' = "done" /\ derr' = "nil" /\ UNCHANGED << dout, dcur >>
         ELSE IF rd.err # "nil"
         THEN dpc' = "done" /\ derr' = "ReadFailed" /\ UNCHANGED << dout, dcur >>
         ELSE IF AllZero(rd.buf)
         THEN dpc' = dpc /\ derr' = derr /\ dout' = dout \o rd.buf /\ dcur' = dcur + 1
         ELSE IF r.err # "nil"
         THEN dpc' = "done" /\ derr' = r.err /\ UNCHANGED << dout, dcur >>
         ELSE dpc' = dpc /\ derr' = derr /\ dout' = dout \o r.page /\ dcur' = dcur + 1
  /\ UNCHANGED << encVars, ctxDone, doneAt, swapped, dHexKey, ddb, dkeys, probe, pt >>

\* ------------------------------------------------------------- direct calls
\* OpenDBFile on the plaintext file Encrypt was given
ProbeOpen ==
  /\ pc = "done" /\ ~ctxDone
  /\ dpc = "idle" /\ probe = NoProbe /\ swapped = << >>
  /\ probe' = [op |-> "open", res |-> OpenDBFile(plainDB, PageSize)]
  /\ UNCHANGED << encVars, ctxDone, doneAt, swapped, decVars, pt >>

\* ValidateKey on page 0 of the finished image with a candidate key
ProbeValidate(k) ==
  /\ pc = "done" /\ err = "nil" /\ ~ctxDone
  /\ dpc = "idle" /\ probe = NoProbe /\ swapped = << >>
  /\ LET e == NewV4Encryptor
         page1 == SubSeq(output, 1, e.pageSize)
     IN  probe' = [op |-> "validate", key |-> k,
                   vres |-> ValidateKey(page1, RawKey(k), SubSeq(page1, 1, SaltSize),
                                        e.hashFunc, e.hmacSize, e.reserve, e.pageSize, e)]
  /\ UNCHANGED << encVars, ctxDone, doneAt, swapped, decVars, pt >>

\* ------------------------------------------------- page-primitive harness
\* common_test.go: EncryptPage, then DecryptPage / ValidateKey on its result,
\* with the keys, page index and parameters of the call
ParamsSHA1 ==
  [iterCount |-> V4IterCount, hmacSize |-> SHA1Size, hashFunc |-> "sha1",
   reserve |-> ReserveFor(SHA1Size), pageSize |-> PageSize]

\* the parameter records the repository constructs
UsedParams == {NewV4Encryptor, ParamsSHA1}

\* every tag width a hash allows
TruncParams ==
  { [iterCount |-> V4IterCount, hmacSize |-> m, hashFunc |-> h,
     reserve |-> ReserveFor(m), pageSize |-> PageSize] :
      h \in {"sha512", "sha1"}, m \in 1..HmacSHA512Size }

RawEncKeys == {RawKey([i \in 1..KeySize |-> 66]), RawKey([i \in 1..KeySize |-> 67])}
RawMacKeys == {RawKey([i \in 1..KeySize |-> 36])}

NoRes == [err |-> "none", page |-> NoPage]
NoVK == [ok |-> FALSE, derived |-> FALSE]

\* a plaintext page: pattern data, then the chosen IV and zero pad in the reserve
HarnessPage(pat, iv, s, pageNum, e) ==
  LET p0 == CopyAt(PatternPage(pat, e), e.pageSize - e.reserve,
                   iv \o Zeros(e.reserve - IVSize))
  IN  IF pageNum = 0 THEN CopyAt(p0, 0, s) ELSE p0

PTInits(P) ==
  LET raw == { [step |-> "plain", e |-> e, userKey |-> << >>, salt |-> s,
                encKey |-> ek, macKey |-> mk, pageNum |-> n, iv |-> iv,
                plain |-> HarnessPage(pat, iv, s, n, e),
                enc |-> NoRes, dec |-> NoRes, vk |-> NoVK] :
                 e \in P, ek \in RawEncKeys, mk \in RawMacKeys, s \in {Zeros(SaltSize)},
                 n \in 0..MaxPageNum, iv \in IVs, pat \in Patterns }
      der == { [step |-> "plain", e |-> e, userKey |-> k, salt |-> s,
                encKey |-> deriveKeys(e, RawKey(k), s).encKey,
                macKey |-> deriveKeys(e, RawKey(k), s).macKey,
                pageNum |-> n, iv |-> iv,
                plain |-> HarnessPage(pat, iv, s, n, e),
                enc |-> NoRes, dec |-> NoRes, vk |-> NoVK] :
                 e \in P, k \in {KeyA, KeyB}, s \in Salts,
                 n \in 0..MaxPageNum, iv \in IVs, pat \in Patterns }
  IN  raw \cup der

IdleMain ==
  /\ hexKey = << >>
  /\ plainDB = [exists |-> FALSE, data |-> << >>]
  /\ ctxDone = FALSE
  /\ doneAt = "never"
  /\ pc = "off"
  /\ err = "running"
  /\ output = << >>
  /\ pos = 0
  /\ pageBuf = << >>
  /\ curPage = 0
  /\ keys = NoKeys
  /\ salt = << >>
  /\ tape = 0
  /\ rnd = << >>
  /\ swapped = << >>
  /\ dHexKey = << >>
  /\ dpc = "off"
  /\ derr = "running"
  /\ dout = << >>
  /\ dcur = 0
  /\ ddb = NoDB
  /\ dkeys = NoKeys
  /\ probe = NoProbe

InitPage == IdleMain /\ pt \in PTInits(UsedParams)
InitTrunc == IdleMain /\ pt \in PTInits(TruncParams)

mainVars == << hexKey, plainDB, ctxDone, doneAt, pc, err, output, pos, pageBuf,
               curPage, keys, salt, tape, rnd, swapped, dHexKey, dpc, derr, dout, dcur,
               ddb, dkeys, probe >>

PTEncrypt ==
  /\ pt.step = "plain"
  /\ pt' = [pt EXCEPT !.step = "enc",
                      !.enc = EncryptPage(pt.plain, pt.encKey, pt.macKey, pt.pageNum,
                                          pt.e.hashFunc, pt.e.hmacSize, pt.e.reserve,
                                          pt.e.pageSize)]
  /\ UNCHANGED mainVars

PTDecrypt ==
  /\ pt.step = "enc" /\ pt.enc.err = "nil"
  /\ pt' = [pt EXCEPT !.step = "dec",
                      !.dec = DecryptPage(pt.enc.page, pt.encKey, pt.macKey, pt.pageNum,
                                          pt.e.hashFunc, pt.e.hmacSize, pt.e.reserve,
                                          pt.e.pageSize)]
  /\ UNCHANGED mainVars

PTValidate ==
  /\ pt.step = "enc" /\ pt.enc.err = "nil"
  /\ pt.pageNum = 0 /\ pt.userKey # << >>
  /\ pt' = [pt EXCEPT !.step = "val",
                      !.vk = ValidateKey(pt.enc.page, RawKey(pt.userKey), pt.salt,
                                         pt.e.hashFunc, pt.e.hmacSize, pt.e.reserve,
                                         pt.e.pageSize, pt.e)]
  /\ UNCHANGED mainVars

NextPage == PTEncrypt \/ PTDecrypt \/ PTValidate

SpecPage == InitPage /\ [][NextPage]_vars
SpecTrunc == InitTrunc /\ [][NextPage]_vars

Next ==
  \/ Cancel
  \/ EncryptStart
  \/ EncryptCheck
  \/ EncryptBody
  \/ \E i, j \in 1..(MaxPages - 1) : Swap(i, j)
  \/ \E hk \in DecHexKeys : DecryptStart(hk)
  \/ DecryptNext
  \/ ProbeOpen
  \/ \E k \in CandidateKeys : ProbeValidate(k)

Spec == Init /\ [][Next]_vars

\* ------------------------------------------------------------- vocabulary
Reserve == NewV4Encryptor.reserve
DataEnd == PageSize - Reserve
HmacSize == NewV4Encryptor.hmacSize

PageOf(img, i) == SubSeq(img, i * PageSize + 1, (i + 1) * PageSize)
\* every byte of s is the zero byte
IsZeroPage(s) == s = Zeros(Len(s))

NumPages(img) == (Len(img) + PageSize - 1) \div PageSize

\* input page i as Encrypt sees it: bytes past end-of-file read as zero
InputPage(i) ==
  [o \in 1..PageSize |->
     IF i * PageSize + o <= Len(plainDB.data)
     THEN plainDB.data[i * PageSize + o] ELSE Byte(0)]

HasHeader == plainDB.exists /\ Len(plainDB.data) >= Len(SQLiteHeader)
               /\ SubSeq(plainDB.data, 1, Len(SQLiteHeader)) = SQLiteHeader
Aligned == Len(plainDB.data) > 0 /\ Len(plainDB.data) % PageSize = 0

\* Encrypt returned success and Decrypt ran on its image with the same key
SameKeyRun == pc = "done" /\ err = "nil" /\ swapped = << >> /\ dHexKey = hexKey
RoundTrip == SameKeyRun /\ Aligned /\ dpc = "done"

\* page i of the plaintext was encrypted, not passed through
Encrypted(i) == i = 0 \/ ~IsZeroPage(InputPage(i))

\* C1 as stated: Decrypt(Encrypt(plain, key), key) equals plain byte for byte,
\* the last RESERVE bytes of every page included.
C1_ExactImage ==
  RoundTrip => (derr = "nil" /\ dout = plainDB.data)

\* C1 as amended: Decrypt(Encrypt(plain, key), key) has the length of plain and
\* equals it at every byte outside the last RESERVE bytes of the encrypted
\* pages (page 0 and every page that is not all zero); those RESERVE bytes come
\* back as the IV, HMAC tag and pad of the encrypted image.
C1_ImageRoundTrip ==
  RoundTrip =>
    /\ derr = "nil"
    /\ Len(dout) = Len(plainDB.data)
    /\ \A p \in 1..Len(plainDB.data) :
         LET i == (p - 1) \div PageSize
             o == (p - 1) % PageSize
         IN  IF Encrypted(i) /\ o >= DataEnd
             THEN dout[p] = output[p]
             ELSE dout[p] = plainDB.data[p]

C1_Witness ==
  /\ RoundTrip /\ derr = "nil"
  /\ NumPages(plainDB.data) = MaxPages
  /\ \E i \in 1..(MaxPages - 1) :
       /\ ~IsZeroPage(InputPage(i))
       /\ SubSeq(InputPage(i), DataEnd + 1, PageSize) # Zeros(Reserve)

\* C2: for a page-aligned image of N pages that starts with HEADER, Encrypt and
\* then Decrypt with the same key succeed and give N * PAGE_SIZE bytes: HEADER,
\* then page 0's bytes [16, PAGE_SIZE - RESERVE) as in the original, and bytes
\* [0, PAGE_SIZE - RESERVE) of every later page as in the original; all-zero
\* pages come back all zero.
C2_DataRegionRoundTrip ==
  /\ (pc = "done" /\ Aligned /\ HasHeader /\ hexKey = HexEncode(KeyA) /\ ~ctxDone)
       => err = "nil"
  /\ RoundTrip =>
       /\ derr = "nil"
       /\ Len(dout) = NumPages(plainDB.data) * PageSize
       /\ SubSeq(dout, 1, Len(SQLiteHeader)) = SQLiteHeader
       /\ SubSeq(dout, Len(SQLiteHeader) + 1, DataEnd)
            = SubSeq(plainDB.data, Len(SQLiteHeader) + 1, DataEnd)
       /\ \A i \in 1..(NumPages(plainDB.data) - 1) :
            /\ SubSeq(PageOf(dout, i), 1, DataEnd) = SubSeq(PageOf(plainDB.data, i), 1, DataEnd)
            /\ IsZeroPage(PageOf(plainDB.data, i)) => IsZeroPage(PageOf(dout, i))

C2_Witness ==
  /\ RoundTrip /\ derr = "nil"
  /\ NumPages(plainDB.data) = MaxPages
  /\ IsZeroPage(PageOf(plainDB.data, MaxPages - 1))
  /\ ~IsZeroPage(SubSeq(PageOf(plainDB.data, 1), 1, DataEnd))

\* C3: for 32-byte keys, a page index >= 1 and a PAGE_SIZE plaintext page whose
\* reserve holds an IV and zero pad, EncryptPage succeeds, DecryptPage of its
\* result succeeds, and the decrypted page has the plaintext's first
\* PAGE_SIZE - RESERVE bytes and the chosen IV after them.
C3_PageRoundTrip ==
  LET dataLen == pt.e.pageSize - pt.e.reserve
  IN  /\ (pt.step # "plain" /\ pt.pageNum >= 1) => pt.enc.err = "nil"
      /\ (pt.step = "dec" /\ pt.pageNum >= 1) =>
           /\ pt.dec.err = "nil"
           /\ SubSeq(pt.dec.page, 1, dataLen) = SubSeq(pt.plain, 1, dataLen)
           /\ SubSeq(pt.dec.page, dataLen + 1, dataLen + IVSize) = pt.iv

C3_Witness ==
  /\ pt.step = "dec" /\ pt.pageNum = MaxPageNum /\ pt.dec.err = "nil"
  /\ pt.e = ParamsSHA1
  /\ ~IsZeroPage(SubSeq(pt.plain, 1, pt.e.pageSize - pt.e.reserve))
  /\ ~IsZeroPage(pt.iv)

\* the tag EncryptPage stores for page i under the keys of the run
TagOf(page, i, macKey) ==
  SubSeq(HMAC(NewV4Encryptor.hashFunc, macKey,
              SubSeq(page, (IF i = 0 THEN SaltSize ELSE 0) + 1, DataEnd + IVSize)
                \o LE32(i + 1)),
         1, HmacSize)

IVsDrawnFor(i) == {k \in 1..Len(rnd) : rnd[k].page = i}

\* C4: every input page of index >= 1 that is all zero (after zero-filling a
\* short read) is written as PAGE_SIZE zero bytes and no IV is drawn for it;
\* every other page of index >= 1 is written with the IV drawn for it and the
\* HMAC tag of its contents.
C4_ZeroPassThrough ==
  \A i \in 1..MaxPages :
    (i + 1) * PageSize <= Len(output) =>
      IF IsZeroPage(InputPage(i))
      THEN /\ PageOf(output, i) = Zeros(PageSize)
           /\ IVsDrawnFor(i) = {}
      ELSE /\ Cardinality(IVsDrawnFor(i)) = 1
           /\ \A k \in IVsDrawnFor(i) :
                SubSeq(PageOf(output, i), DataEnd + 1, DataEnd + IVSize) = rnd[k].iv
           /\ SubSeq(PageOf(output, i), DataEnd + IVSize + 1, DataEnd + IVSize + HmacSize)
                = TagOf(PageOf(output, i), i, keys.macKey)

C4_Witness ==
  /\ pc = "done" /\ err = "nil"
  /\ Len(output) = MaxPages * PageSize
  /\ IsZeroPage(InputPage(1)) /\ PageOf(output, 1) = Zeros(PageSize)
  /\ ~IsZeroPage(InputPage(2)) /\ IsZeroPage(SubSeq(InputPage(2), 1, DataEnd))
  /\ Len(plainDB.data) % PageSize # 0

\* C5: for page 0 of an image Encrypt produced with key k and salt s,
\* ValidateKey(page0, k', s) is true exactly when k' = k; the stored tag is the
\* HMAC of page0[SALT_SIZE .. data_end + IV_SIZE] followed by LE32(1) under the
\* mac key of k; a key of another length is rejected without deriving keys.
C5_KeyValidation ==
  /\ (pc = "done" /\ err = "nil") =>
       SubSeq(output, DataEnd + IVSize + 1, DataEnd + IVSize + HmacSize)
         = SubSeq(HMAC(NewV4Encryptor.hashFunc, keys.macKey,
                       SubSeq(output, SaltSize + 1, DataEnd + IVSize) \o LE32(1)),
                  1, HmacSize)
  /\ probe.op = "validate" =>
       /\ probe.vres.ok <=> HexEncode(probe.key) = hexKey
       /\ Len(probe.key) # KeySize => (~probe.vres.ok /\ ~probe.vres.derived)
  /\ (dpc # "idle" /\ swapped = << >> /\ dHexKey \in {HexEncode(KeyA), HexEncode(KeyB)}) =>
       (derr = "KeyMismatch" <=> dHexKey # hexKey)

C5_Witness ==
  /\ probe.op = "validate" /\ probe.vres.ok
  /\ Len(plainDB.data) > PageSize

\* C6 as stated: once cancellation is signalled while Encrypt is running,
\* Encrypt returns Cancelled (and what it wrote is a whole number of pages).
C6_CancelAlwaysFails ==
  (pc = "done" /\ doneAt \in {"check", "body"}) =>
    (err = "Cancelled" /\ Len(output) % PageSize = 0)

\* C6 as amended: when the check at a page boundary finds cancellation
\* signalled, Encrypt returns Cancelled there without reading or writing
\* anything more; a signal that arrives after the last such check (while the
\* final page is processed or end-of-file is read) is not observed.  A page
\* whose processing has started is written in full, and whenever Encrypt
\* returns Cancelled the sink holds a whole number of pages.
C6_CancelAtBoundary ==
  /\ [][(pc = "check" /\ ctxDone) =>
          (pc' = "done" /\ err' = "Cancelled" /\ output' = output /\ pos' = pos)]_encVars
  /\ [][pc = "body" =>
          \/ pc' = "done" /\ err' = "nil" /\ output' = output
          \/ /\ Len(output') = Len(output) + PageSize
             /\ SubSeq(output', 1, Len(output)) = output
             /\ pc' = "check" \/ (pc' = "done" /\ err' = "nil")]_encVars
  /\ [](err = "Cancelled" =>
          (pc = "done" /\ ctxDone /\ Len(output) > 0 /\ Len(output) % PageSize = 0))

C6_Witness ==
  /\ pc = "done" /\ err = "Cancelled" /\ doneAt = "body"
  /\ Len(output) = 2 * PageSize
  /\ Len(plainDB.data) > 2 * PageSize

\* Decrypt ran with Encrypt's key on the image with pages i and j exchanged
SwappedRun ==
  /\ pc = "done" /\ err = "nil" /\ swapped # << >>
  /\ dpc = "done" /\ dHexKey = hexKey

\* C7 as stated: exchanging the encrypted pages at two distinct indices i, j >= 1
\* makes decryption fail with HashVerificationFailed on one of the two pages.
C7_AnySwapFails ==
  SwappedRun =>
    (derr = "HashVerificationFailed" /\ dcur \in {swapped[1], swapped[2]})

\* C7 as amended: exchanging the encrypted pages at two distinct indices
\* i, j >= 1 that are not both all-zero pass-through pages makes decryption fail
\* with HashVerificationFailed on one of the two pages; exchanging two all-zero
\* pages leaves the image as it was and decryption succeeds.
C7_SwapFails ==
  SwappedRun =>
    IF IsZeroPage(PageOf(output, swapped[1])) /\ IsZeroPage(PageOf(output, swapped[2]))
    THEN EncDB.data = output /\ derr = "nil"
    ELSE /\ derr = "HashVerificationFailed"
         /\ dcur \in {swapped[1], swapped[2]}
         /\ ~IsZeroPage(PageOf(EncDB.data, dcur))

C7_Witness ==
  /\ SwappedRun /\ derr = "HashVerificationFailed"
  /\ dcur = swapped[2]
  /\ IsZeroPage(PageOf(output, swapped[2]))

\* the plaintext file begins with the first len(HEADER) - 1 bytes of HEADER
HasHeaderPrefix ==
  /\ plainDB.exists /\ Len(plainDB.data) >= Len(SQLiteHeader) - 1
  /\ SubSeq(plainDB.data, 1, Len(SQLiteHeader) - 1)
       = SubSeq(SQLiteHeader, 1, Len(SQLiteHeader) - 1)

\* Encrypt took the file as a plaintext image: it got past the header
Accepted == pc = "done" /\ err \in {"nil", "Cancelled"}

\* C8 as stated: OpenDBFile on any file that begins with HEADER and that
\* Encrypt accepts fails with AlreadyDecrypted and returns no record, and so
\* does any file whose first len(HEADER) - 1 bytes match.
C8_AlwaysAlreadyDecrypted ==
  probe.op = "open" =>
    /\ (HasHeader /\ Accepted) =>
         (probe.res.err = "AlreadyDecrypted" /\ probe.res.db = NoDB)
    /\ HasHeaderPrefix =>
         (probe.res.err = "AlreadyDecrypted" /\ probe.res.db = NoDB)

\* C8 as amended: OpenDBFile on a file that begins with HEADER and that Encrypt
\* accepts never returns a record; it fails with AlreadyDecrypted when the file
\* holds at least PAGE_SIZE bytes and with ReadFailed when it is shorter.  The
\* test looks at the first len(HEADER) - 1 bytes only: a file of at least
\* PAGE_SIZE bytes whose first 15 bytes match is rejected whatever its 16th
\* byte is.
C8_PlaintextRejected ==
  probe.op = "open" =>
    /\ (HasHeader /\ Accepted) => probe.res.db = NoDB
    /\ HasHeaderPrefix =>
         /\ probe.res.db = NoDB
         /\ probe.res.err = IF Len(plainDB.data) >= PageSize
                            THEN "AlreadyDecrypted" ELSE "ReadFailed"
    /\ probe.res.err = "AlreadyDecrypted" => HasHeaderPrefix

C8_Witness ==
  /\ probe.op = "open" /\ probe.res.err = "AlreadyDecrypted"
  /\ ~HasHeader /\ HasHeaderPrefix

\* the hex key arguments by what they are
HexUndecodable == hexKey \in {HexBadChar, HexOdd}
HexWrongLength == hexKey = HexEncode(KeyShort)
HexValid == hexKey = HexEncode(KeyA)

\* C9 as stated: with a valid key, every openable file that does not begin with
\* the exact HEADER makes Encrypt fail with InvalidHeader with nothing written;
\* a key that does not decode or has the wrong length fails with KeyDecode or
\* KeyLength with nothing written.
C9_AlwaysInvalidHeader ==
  pc = "done" =>
    /\ (HexValid /\ plainDB.exists /\ ~HasHeader) =>
         (err = "InvalidHeader" /\ output = << >>)
    /\ HexUndecodable => (err = "KeyDecode" /\ output = << >>)
    /\ HexWrongLength => (err = "KeyLength" /\ output = << >>)

\* C9 as amended: with a valid key, every openable file of at least 16 bytes
\* that does not begin with the exact HEADER makes Encrypt fail with
\* InvalidHeader, and an openable file shorter than 16 bytes makes it fail with
\* ReadFailed; in both cases nothing has been written.  A key that does not
\* decode or has the wrong length fails with KeyDecode or KeyLength with
\* nothing written.
C9_HeaderBeforeOutput ==
  /\ (pc # "done" /\ output # << >>) => (HexValid /\ HasHeader)
  /\ pc = "done" =>
       /\ (HexValid /\ plainDB.exists /\ ~HasHeader) =>
            /\ output = << >>
            /\ err = IF Len(plainDB.data) >= Len(SQLiteHeader)
                     THEN "InvalidHeader" ELSE "ReadFailed"
       /\ HexUndecodable => (err = "KeyDecode" /\ output = << >>)
       /\ HexWrongLength => (err = "KeyLength" /\ output = << >>)

C9_Witness ==
  /\ pc = "done" /\ err = "InvalidHeader" /\ output = << >>
  /\ HasHeaderPrefix /\ Len(plainDB.data) > PageSize

\* C10: for every hmacSize up to the hash's width, the tag EncryptPage stores
\* is the leading hmacSize bytes of the HMAC, and DecryptPage and ValidateKey
\* accept the page EncryptPage produced under the same keys and parameters.
C10_TruncatedTagAccepted ==
  LET tagAt == pt.e.pageSize - pt.e.reserve + IVSize
      off == IF pt.pageNum = 0 THEN SaltSize ELSE 0
  IN  /\ (pt.step # "plain" /\ pt.e.hmacSize <= HashSize(pt.e.hashFunc)) =>
           /\ pt.enc.err = "nil"
           /\ SubSeq(pt.enc.page, tagAt + 1, tagAt + pt.e.hmacSize)
                = SubSeq(HMAC(pt.e.hashFunc, pt.macKey,
                              SubSeq(pt.enc.page, off + 1, tagAt) \o LE32(pt.pageNum + 1)),
                         1, pt.e.hmacSize)
      /\ pt.step = "dec" => pt.dec.err = "nil"
      /\ pt.step = "val" => pt.vk.ok

\* the encoding of input page i under the keys, salt and IV of the run: zeros
\* for an all-zero page past page 0; otherwise salt (page 0 only), the CBC
\* ciphertext of the page's data region, the IV, the tag and a zero pad
EncodingWith(i, iv) ==
  LET off == IF i = 0 THEN SaltSize ELSE 0
      body == (IF i = 0 THEN salt ELSE << >>)
                \o CBCEncrypt(keys.encKey, iv, SubSeq(InputPage(i), off + 1, DataEnd))
                \o iv
  IN  body \o TagOf(body, i, keys.macKey) \o Zeros(Reserve - IVSize - HmacSize)

IsEncodingOf(out, i) ==
  IF ~Encrypted(i) THEN out = Zeros(PageSize)
  ELSE \E k \in IVsDrawnFor(i) : out = EncodingWith(i, rnd[k].iv)

ValidInput == HexValid /\ HasHeader

\* C11: for every input of S >= 16 bytes that starts with HEADER, every pass of
\* Encrypt's page loop either returns or consumes input that is there to be
\* consumed, so the run terminates; when it was not cancelled it returns
\* success with exactly ceil(S / PAGE_SIZE) >= 1 pages of PAGE_SIZE bytes
\* written, never more at any point, and the last page written is the encoding
\* of the final input page with the bytes past end-of-file read as zero.
C11_PageCount ==
  /\ [](ValidInput => Len(output) <= NumPages(plainDB.data) * PageSize)
  /\ []((ValidInput /\ pc = "done" /\ ~ctxDone) =>
          LET N == NumPages(plainDB.data)
          IN  /\ err = "nil"
              /\ N >= 1
              /\ Len(output) = N * PageSize
              /\ IsEncodingOf(PageOf(output, N - 1), N - 1))
  /\ [][(ValidInput /\ pc = "body") =>
          (pc' = "done" \/ (pos < pos' /\ pos' <= Len(plainDB.data)))]_encVars

\* a run ends on a short, non-zero final page read into a buffer that still
\* holds the non-zero page encrypted before it
C11_Witness ==
  /\ ValidInput /\ pc = "done" /\ err = "nil" /\ ~ctxDone
  /\ NumPages(plainDB.data) = MaxPages
  /\ Len(plainDB.data) % PageSize = SaltSize
  /\ ~IsZeroPage(InputPage(MaxPages - 1))
  /\ ~IsZeroPage(SubSeq(InputPage(MaxPages - 2), SaltSize + 1, DataEnd))
  /\ Len(output) = MaxPages * PageSize

\* C12: the sink only grows, one whole page at a time; at every point it holds
\* the encodings of input pages 0..k-1 in index order, and while the loop runs k
\* is the page counter, pages passed through included.  Position i >= 1 is
\* all zero exactly when input page i is; every other position holds the
\* ciphertext of input page i's data region and an HMAC over
\* page[off .. DATA_END + IV_SIZE] followed by the little-endian number i + 1
\* (off = SALT_SIZE for i = 0, else 0).
C12_PageOrder ==
  /\ [][\/ output' = output
        \/ /\ Len(output') = Len(output) + PageSize
           /\ SubSeq(output', 1, Len(output)) = output]_encVars
  /\ [](/\ Len(output) % PageSize = 0
        /\ pc \in {"check", "body"} => Len(output) = curPage * PageSize
        /\ \A i \in 0..MaxPages :
             (i + 1) * PageSize <= Len(output) =>
               LET out == PageOf(output, i)
                   off == IF i = 0 THEN SaltSize ELSE 0
                   iv == SubSeq(out, DataEnd + 1, DataEnd + IVSize)
               IN  /\ IsZeroPage(out) <=> ~Encrypted(i)
                   /\ ~IsZeroPage(out) =>
                        /\ SubSeq(out, off + 1, DataEnd)
                             = CBCEncrypt(keys.encKey, iv,
                                          SubSeq(InputPage(i), off + 1, DataEnd))
                        /\ SubSeq(out, DataEnd + IVSize + 1, DataEnd + IVSize + HmacSize)
                             = TagOf(out, i, keys.macKey))

\* a finished image whose page 1 was passed through and whose page 2 was
\* encrypted and tagged after it
C12_Witness ==
  /\ pc = "done" /\ err = "nil"
  /\ Len(output) = MaxPages * PageSize
  /\ IsZeroPage(PageOf(output, MaxPages - 2))
  /\ ~IsZeroPage(PageOf(output, MaxPages - 1))
  /\ ~IsZeroPage(SubSeq(InputPage(MaxPages - 1), 1, DataEnd))

====
